---- MODULE Spec2Model ----
(***************************************************************************)
(* A model of unpack_wl.py (and of paksort.py's ordering): the pak-file    *)
(* descriptor and its ordering, the path normalizer, and the per-archive   *)
(* list / extract / merge pipeline driven by the __main__ block.           *)
(*                                                                         *)
(* Strings are sequences of tokens.  A token stands for a run of           *)
(* characters that the program's regular expressions never split: "/" is   *)
(* the path separator, a digit token is one decimal digit, a word token is *)
(* a run of \w characters, every other token holds a character that is     *)
(* neither \w nor "/".  String concatenation is \o.                        *)
(***************************************************************************)
EXTENDS Integers, Sequences, FiniteSets, TLC

----------------------------------------------------------------------------
(* Bounds of the model *)

\* most segments of an enumerated raw path (SpecNorm)
MaxSegments == 5
\* most candidate paths given to one run (Spec)
MaxPaks == 2
\* most lines "UnrealPak -list" prints before its stdout closes (Spec)
MaxListLines == 3
\* most lines "UnrealPak -extract" prints before its stdout closes (Spec)
MaxExtractLines == 2

----------------------------------------------------------------------------
(* Tokens and string helpers *)

Digits == {"0", "1", "2", "3", "4", "5", "6", "7", "8", "9"}

DigitVal(t) ==
    CASE t = "0" -> 0 [] t = "1" -> 1 [] t = "2" -> 2 [] t = "3" -> 3
      [] t = "4" -> 4 [] t = "5" -> 5 [] t = "6" -> 6 [] t = "7" -> 7
      [] t = "8" -> 8 [] t = "9" -> 9

\* word tokens: runs of \w characters
WordTokens ==
    Digits \cup
    {"OakGame", "Game", "Wwise", "WwiseEditor", "Content", "Plugins", "Engine",
     "SomePlugin", "Weapons", "Gun", "Foo", "Bar", "uasset", "umap", "a", "b",
     "Maps", "Dungeons", "Boss", "Climb", "D_Boss_Climb_P", "D_Boss_Climb_p",
     "pakchunk", "optional", "_", "_P", "wem", "d"}

IsWord(t) == t \in WordTokens

SetMax(S) == CHOOSE x \in S : \A y \in S : y <= x

SetMin(S) == CHOOSE x \in S : \A y \in S : x <= y

Suffix(s, i) == SubSeq(s, i, Len(s))

StartsWith(s, p) == Len(s) >= Len(p) /\ SubSeq(s, 1, Len(p)) = p

EndsWith(s, p) == Len(s) >= Len(p) /\ Suffix(s, Len(s) - Len(p) + 1) = p

\* position of the last token of s before position i that is in set T, 0 if none
LastBefore(s, i, T) ==
    LET ps == {j \in 1..(i - 1) : s[j] \in T}
    IN  IF ps = {} THEN 0 ELSE SetMax(ps)

\* a number pattern of one digit only
OneDigitEnd(s, i) == IF i <= Len(s) /\ s[i] \in Digits THEN i ELSE i - 1

\* end of the longest run of digit tokens of s starting at i (i - 1 if none)
DigitRunEnd(s, i) ==
    LET js == {j \in i..Len(s) : \A k \in i..j : s[k] \in Digits}
    IN  IF js = {} THEN i - 1 ELSE SetMax(js)

\* int() of a non-empty run of decimal digits
RECURSIVE IntOf(_)
IntOf(ds) ==
    IF Len(ds) = 0 THEN 0
    ELSE 10 * IntOf(SubSeq(ds, 1, Len(ds) - 1)) + DigitVal(ds[Len(ds)])

----------------------------------------------------------------------------
(* PakFile: the descriptor parsed from an archive filename *)

\* PakFile.audio_nums
audio_nums == {2, 3, 48, 49, 50, 51, 52, 53}

(* PakFile.re_pak matched against a filename:
   ^ (dir_prefix: .* [/\\])? pakchunk (\d+) (optional)? -WindowsNoEditor
     (_ (\d+) _P)? \.pak $
   The tokens after the directory prefix hold no separator, so the prefix ends
   at the last separator.  The result has the groups the constructor reads. *)
re_pak_match(filename) ==
    LET p    == LastBefore(filename, Len(filename) + 1, {"/", "\\"})
        base == Suffix(filename, p + 1)
        n    == Len(base)
        d1   == DigitRunEnd(base, 2)
        opt  == d1 + 1 <= n /\ base[d1 + 1] = "optional"
        w    == IF opt THEN d1 + 2 ELSE d1 + 1
        hasp == w + 1 <= n /\ base[w + 1] = "_"
        d2   == DigitRunEnd(base, w + 2)
        e    == IF hasp THEN d2 + 2 ELSE w + 1
        ok   == /\ n >= 4
                /\ base[1] = "pakchunk"
                /\ d1 >= 2
                /\ w <= n /\ base[w] = "-WindowsNoEditor"
                /\ hasp => (d2 >= w + 2 /\ d2 + 1 <= n /\ base[d2 + 1] = "_P")
                /\ e = n /\ base[e] = ".pak"
    IN  IF ok
        THEN [matched   |-> TRUE,
              datagroup |-> SubSeq(base, 2, d1),
              optional  |-> opt,
              haspatch  |-> hasp,
              patchnum  |-> IF hasp THEN SubSeq(base, w + 2, d2) ELSE <<>>]
        ELSE [matched |-> FALSE]

(* PakFile.__init__ (lines 225-237).  paknum is the float datagroup + 0.5 * optional of the
   source; it is kept doubled here (2 * datagroup + 1 for an optional archive)
   so that it stays an integer. *)
\* the constructor raises RuntimeError("Unknown pak file") (line 237)
PakFileRaises(filename) == ~re_pak_match(filename).matched

\* a constructor that forgets the 0.5 of an optional archive
PakFileNoOffset(filename) ==
    LET m == re_pak_match(filename)
    IN  IF m.matched
        THEN [filename |-> filename,
              paknum   |-> 2 * IntOf(m.datagroup),
              patchnum |-> IF m.haspatch THEN IntOf(m.patchnum) ELSE -1]
        ELSE [raised |-> "RuntimeError: Unknown pak file"]

PakFile(filename) ==
    LET m == re_pak_match(filename)
    IN  IF m.matched
        THEN [filename |-> filename,
              paknum   |-> 2 * IntOf(m.datagroup) + (IF m.optional THEN 1 ELSE 0),
              patchnum |-> IF m.haspatch THEN IntOf(m.patchnum) ELSE -1]
        ELSE [raised |-> "RuntimeError: Unknown pak file"]

\* PakFile.is_audio_only: self.paknum in self.audio_nums (paknum is doubled)
is_audio_only(pf) == pf.paknum \in {2 * n : n \in audio_nums}

\* PakFile.__lt__: (self.paknum, self.patchnum) < (other.paknum, other.patchnum)
Lt(self, other) ==
    \/ self.paknum < other.paknum
    \/ self.paknum = other.paknum /\ self.patchnum < other.patchnum

\* a loop over all_pak_files as given, without sorted()
InsertUnsorted(s, x) == Append(s, x)

(* sorted(all_pak_files): Python's sort uses only __lt__ and is stable; on a
   list this short it is a binary insertion sort, which puts each element
   before the first element of the sorted prefix that it is less than. *)
InsertSorted(s, x) ==
    LET ps == {i \in 1..Len(s) : Lt(x, s[i])}
        p  == IF ps = {} THEN Len(s) + 1 ELSE SetMin(ps)
    IN  SubSeq(s, 1, p - 1) \o <<x>> \o Suffix(s, p)

RECURSIVE sorted(_)
sorted(s) ==
    IF Len(s) = 0 THEN <<>>
    ELSE InsertSorted(sorted(SubSeq(s, 1, Len(s) - 1)), s[Len(s)])

----------------------------------------------------------------------------
(* Path normalization (PakFile.get_filename_mapping, lines 277-293) *)

\* a normalizer without the override table
no_overrides(firstpart) == firstpart

\* PakFile.content_firstpart_overrides
content_firstpart_overrides(firstpart) ==
    CASE firstpart = <<"OakGame">> -> <<"Game">>
      [] firstpart = <<"Wwise">>   -> <<"WwiseEditor">>
      [] OTHER                     -> firstpart

(* PakFile.re_normalize_plugins:
   ^ (firstpart: \w+) /Plugins/ (lastpart: .* ) \s* $
   \w+ holds no separator, so firstpart is the whole first segment. *)
re_normalize_plugins(s) ==
    LET ss == {i \in 1..Len(s) : s[i] = "/"}
        k  == IF ss = {} THEN 0 ELSE SetMin(ss)
    IN  IF /\ k >= 2
           /\ \A i \in 1..(k - 1) : IsWord(s[i])
           /\ Len(s) >= k + 2
           /\ s[k + 1] = "Plugins"
           /\ s[k + 2] = "/"
        THEN [matched |-> TRUE, lastpart |-> Suffix(s, k + 3)]
        ELSE [matched |-> FALSE]

(* PakFile.re_normalize_content:
   ^ (junk: .* /)? (firstpart: \w+) /Content/ (lastpart: .* ) \s* $
   junk is greedy, so the match uses the last "/Content/" that follows a whole
   segment of \w characters. *)
re_normalize_content(s) ==
    LET cs == {c \in 3..(Len(s) - 1) :
                 /\ s[c] = "Content" /\ s[c - 1] = "/" /\ s[c + 1] = "/"
                 /\ LET b == LastBefore(s, c - 1, {"/"}) + 1
                    IN  b <= c - 2 /\ \A i \in b..(c - 2) : IsWord(s[i])}
    IN  IF cs = {} THEN [matched |-> FALSE]
        ELSE LET c == SetMax(cs)
                 b == LastBefore(s, c - 1, {"/"}) + 1
             IN  [matched   |-> TRUE,
                  firstpart |-> SubSeq(s, b, c - 2),
                  lastpart  |-> Suffix(s, c + 2)]

\* PakFile.hardcoded_path_fixes
hardcoded_path_fixes ==
    << [dir_name  |-> <<"Game", "/", "Maps", "/", "Dungeons", "/", "Boss", "/", "Climb">>,
        from_name |-> <<"D_Boss_Climb_P">>,
        to_name   |-> <<"D_Boss_Climb_p">>,
        directory |-> FALSE] >>

(* CaseFix.apply: re.sub of ^ dir/from/ (remaining: .* ) $ for a directory
   rule, of ^ dir/from \. (ext: \w+) $ for a file rule *)
CaseFixApply(fix, filename) ==
    LET pre == fix.dir_name \o <<"/">> \o fix.from_name
        to  == fix.dir_name \o <<"/">> \o fix.to_name
        n   == Len(pre)
    IN  IF fix.directory
        THEN IF StartsWith(filename, pre \o <<"/">>)
             THEN to \o Suffix(filename, n + 1)
             ELSE filename
        ELSE IF /\ StartsWith(filename, pre \o <<".">>)
                /\ Len(filename) >= n + 2
                /\ \A i \in (n + 2)..Len(filename) : IsWord(filename[i])
             THEN to \o Suffix(filename, n + 1)
             ELSE filename

\* for fix in self.hardcoded_path_fixes: real_filename = fix.apply(real_filename)
RECURSIVE ApplyFixes(_, _)
ApplyFixes(fixes, filename) ==
    IF Len(fixes) = 0 THEN filename
    ELSE ApplyFixes(Tail(fixes), CaseFixApply(Head(fixes), filename))

\* lines 279-280: the plugin step
PluginStep(real_filename) ==
    LET pluginmatch == re_normalize_plugins(real_filename)
    IN  IF pluginmatch.matched THEN pluginmatch.lastpart ELSE real_filename

\* lines 281-289: the content step
ContentStep(real_filename) ==
    LET contentmatch == re_normalize_content(real_filename)
    IN  IF contentmatch.matched
        THEN content_firstpart_overrides(contentmatch.firstpart)
               \o <<"/">> \o contentmatch.lastpart
        ELSE real_filename

\* a normalizer whose content step is an elif of the plugin step
NormalizeElif(real_filename) ==
    ApplyFixes(hardcoded_path_fixes,
               IF re_normalize_plugins(real_filename).matched
               THEN PluginStep(real_filename)
               ELSE ContentStep(real_filename))

\* lines 278-293: both steps in sequence (two ifs, not if/elif), then the fixes
Normalize(real_filename) ==
    ApplyFixes(hardcoded_path_fixes, ContentStep(PluginStep(real_filename)))

----------------------------------------------------------------------------
(* Module-level configuration *)

\* SKIP_AUDIO_PAKS = True (line 90)
SKIP_AUDIO_PAKS == TRUE

\* EXTRACTED_FILES_TO_DELETE (lines 78-82), matched by fnmatch against a file's
\* basename: "*.wem", "*.bnk", "*ShaderArchive*"
PrunedFile(raw) ==
    LET p    == LastBefore(raw, Len(raw) + 1, {"/"})
        base == Suffix(raw, p + 1)
    IN  \/ EndsWith(base, <<".", "wem">>)
        \/ EndsWith(base, <<".", "bnk">>)
        \/ \E i \in 1..Len(base) : base[i] = "ShaderArchive"

----------------------------------------------------------------------------
(* The inputs of a run: archive filenames, and what UnrealPak may print *)

WNE == "-WindowsNoEditor"

N9   == <<"pakchunk", "9", WNE, ".pak">>
N10  == <<"pakchunk", "1", "0", WNE, ".pak">>
N9p1 == <<"pakchunk", "9", WNE, "_", "1", "_P", ".pak">>
dN9  == <<"d", "/", "pakchunk", "9", WNE, ".pak">>
N2   == <<"pakchunk", "2", WNE, ".pak">>
N2o  == <<"pakchunk", "2", "optional", WNE, ".pak">>
NBad == <<"pakchunk", WNE, ".pak">>
NTxt == <<"a", ".txt">>

(* A candidate path: a path given explicitly (CUSTOM_PATH_LIST, the command
   line, get_install_paks), or a name that os.listdir found in a given
   directory (explicit = FALSE). *)
PathItems ==
    {[name |-> n, explicit |-> TRUE] :
        n \in {N9, N10, N9p1, N2, N2o, NBad, NTxt}}
    \cup {[name |-> NTxt, explicit |-> FALSE]}

RECURSIVE SeqsUpTo(_, _)
SeqsUpTo(S, n) ==
    IF n = 0 THEN {<<>>}
    ELSE LET shorter == SeqsUpTo(S, n - 1)
         IN  shorter \cup {Append(s, x) : s \in {t \in shorter : Len(t) = n - 1}, x \in S}

\* raw filenames an archive's index may hold
RawNames ==
    {<<"a">>, <<"OakGame", "/", "Content", "/", "a">>, <<"b", ".", "wem">>}

\* mount points UnrealPak may announce
MountPoints ==
    {<<"..", "/", "..", "/", "..", "/", "OakGame", "/", "Content", "/">>, <<"/">>}

MountLine(mp) == <<"Display: Mount point ">> \o mp

FileLine(raw) == <<"Display: \"">> \o raw \o <<"\" offset">>

ExtractedLine(raw) == <<"Display: Extracted \"">> \o raw \o <<"\" to ">>

OtherLine == <<"LogInit: other output">>

\* lines "UnrealPak -list" may print
ListLines ==
    {MountLine(mp) : mp \in MountPoints} \cup {FileLine(r) : r \in RawNames}
    \cup {OtherLine}

\* lines "UnrealPak -extract" may print
ExtractLines == {ExtractedLine(r) : r \in RawNames} \cup {OtherLine}

----------------------------------------------------------------------------
(* Parsing UnrealPak's output *)

FirstIndex(s, t) ==
    LET ps == {i \in 1..Len(s) : s[i] = t}
    IN  IF ps = {} THEN 0 ELSE SetMin(ps)

\* PakFile.re_unpack_mount.search: Display: Mount point (mountpoint: .* ) $
re_unpack_mount(line) ==
    LET i == FirstIndex(line, "Display: Mount point ")
    IN  IF i = 0 THEN [matched |-> FALSE]
        ELSE [matched |-> TRUE, mountpoint |-> Suffix(line, i + 1)]

\* PakFile.re_unpack_file.search: Display: "(filename: .* )" offset (greedy)
re_unpack_file(line) ==
    LET i == FirstIndex(line, "Display: \"")
        j == LastBefore(line, Len(line) + 1, {"\" offset"})
    IN  IF i = 0 \/ j <= i THEN [matched |-> FALSE]
        ELSE [matched |-> TRUE, filename |-> SubSeq(line, i + 1, j - 1)]

\* PakFile.re_extract.search: Display: Extracted "(filename: .*? )" to  (lazy)
re_extract(line) ==
    LET i  == FirstIndex(line, "Display: Extracted \"")
        js == {j \in (i + 1)..Len(line) : line[j] = "\" to "}
    IN  IF i = 0 \/ js = {} THEN [matched |-> FALSE]
        ELSE [matched |-> TRUE, filename |-> SubSeq(line, i + 1, SetMin(js) - 1)]

\* lines 264-270: the mount point as get_filename_mapping keeps it
StripMount(mp) ==
    IF StartsWith(mp, <<"..", "/", "..", "/", "..", "/">>) THEN Suffix(mp, 7)
    ELSE IF mp = <<"/">> THEN <<>>
    ELSE mp

(* filename_mapping is a dict: a sequence of <<key, value>> pairs in insertion
   order; assigning to a key it holds keeps the key's place. *)
DictKeys(d) == {d[i][1] : i \in 1..Len(d)}

DictSet(d, k, v) ==
    IF k \in DictKeys(d)
    THEN [i \in 1..Len(d) |-> IF d[i][1] = k THEN <<k, v>> ELSE d[i]]
    ELSE Append(d, <<k, v>>)

\* every final path a listing of this model can produce
FinalPaths == {Normalize(StripMount(mp) \o r) : mp \in MountPoints, r \in RawNames}

\* no file: the content of a path that holds none
NoFile == <<>>

----------------------------------------------------------------------------
(* The state of a run of the __main__ block *)

VARIABLES
    paths_to_add,        \* the candidate paths of this run (lines 638-646)
    pc,                  \* where the run is: "start", "filter", "preflight",
                         \* "loop", "done", "aborted" (an exception reached the
                         \* except clause), "exited" (sys.exit); for a pure
                         \* function under test: "pure", then "applied"
    err,                 \* the message of the exception that ended the run
    proposed_pak_files,  \* line 649
    all_pak_files,       \* line 666
    order,               \* sorted(all_pak_files), the loop's iterable
    cur,                 \* index in order of the loop's pakfile, 0 before it
    stage,               \* stage of each archive of order
    started,             \* the archives in the order they were started
    mountpoint,          \* get_filename_mapping's local: [bound, val]
    filename_mapping,    \* the dict being built, then the one returned
    nread,               \* lines read from the running subprocess
    files_unpacked,      \* extract's counter
    abnormal,            \* a subprocess of the loop's pakfile exited abnormally
                         \* (Popen.returncode: the program never reads it)
    stderr_fits,         \* what the running subprocess writes to its stderr
                         \* before it closes its stdout fits into the pipe of
                         \* line 387, which is never read
    tmp_extract,         \* the staging directory: [exists, files]
    final_extract,       \* the final tree: content of each final path
    contrib,             \* every <<archive, final path>> a merge has moved
    arg, res             \* input and result of a pure function under test

vars == <<paths_to_add, pc, err, proposed_pak_files, all_pak_files, order, cur,
          stage, started, mountpoint, filename_mapping, nread, files_unpacked,
          abnormal, stderr_fits, tmp_extract, final_extract, contrib, arg, res>>

\* variables of the run that only the archive loop changes
loopvars == <<order, cur, stage, started, mountpoint, filename_mapping, nread,
              files_unpacked, abnormal, stderr_fits, tmp_extract, final_extract,
              contrib>>

Unbound == [bound |-> FALSE, val |-> <<>>]

\* the staging directory may hold files that an earlier run left behind
StagingAtStart ==
    {[exists |-> FALSE, files |-> [r \in RawNames |-> NoFile]],
     [exists |-> TRUE,  files |-> [r \in RawNames |-> NoFile]],
     [exists |-> TRUE,
      files  |-> [r \in RawNames |-> IF r = <<"a">> THEN <<"old">> ELSE NoFile]]}

RunInit ==
    /\ err = ""
    /\ proposed_pak_files = <<>>
    /\ all_pak_files = <<>>
    /\ order = <<>>
    /\ cur = 0
    /\ stage = <<>>
    /\ started = <<>>
    /\ mountpoint = Unbound
    /\ filename_mapping = <<>>
    /\ nread = 0
    /\ files_unpacked = 0
    /\ abnormal = FALSE
    /\ stderr_fits = TRUE
    /\ final_extract = [p \in FinalPaths |-> NoFile]
    /\ contrib = {}

Init ==
    /\ paths_to_add \in SeqsUpTo(PathItems, MaxPaks)
    /\ tmp_extract \in StagingAtStart
    /\ pc = "start"
    /\ RunInit
    /\ arg = <<>>
    /\ res = <<>>

\* an error that is reported while the run goes on
LogAndContinue(msg) == pc' = pc /\ err' = msg

\* an exception propagates to the except clause of line 839
Raise(msg) == pc' = "aborted" /\ err' = msg

----------------------------------------------------------------------------
(* Lines 648-663: build proposed_pak_files *)

IsPak(name) == EndsWith(name, <<".pak">>)

\* a loop that passes over a .pak name it cannot parse
ProposeItemLenient(it) ==
    IF ~IsPak(it.name)
    THEN IF it.explicit THEN "ValueError: not a .pak file" ELSE "skip"
    ELSE IF PakFileRaises(it.name) THEN "skip"
    ELSE "add"

(* Lines 651-663, one pathname or one os.listdir entry: it is appended as a
   PakFile ("add"), passed over ("skip": a directory entry that is no .pak),
   or an exception is raised. *)
ProposeItem(it) ==
    IF ~IsPak(it.name)
    THEN IF it.explicit THEN "ValueError: not a .pak file" ELSE "skip"
    ELSE IF PakFileRaises(it.name) THEN "RuntimeError: Unknown pak file"
    ELSE "add"

(* The loop over paths_to_add, up to its first exception: [err, paks]. *)
RECURSIVE Propose(_, _)
Propose(items, acc) ==
    IF Len(items) = 0 THEN [err |-> "", paks |-> acc]
    ELSE LET it == Head(items)
             r  == ProposeItem(it)
         IN  IF r = "skip" THEN Propose(Tail(items), acc)
             ELSE IF r = "add"
             THEN Propose(Tail(items), Append(acc, PakFile(it.name)))
             ELSE [err |-> r, paks |-> acc]

BuildProposed ==
    /\ pc = "start"
    /\ LET r == Propose(paths_to_add, <<>>)
       IN  IF r.err # ""
           THEN Raise(r.err) /\ UNCHANGED proposed_pak_files
           ELSE pc' = "filter" /\ proposed_pak_files' = r.paks /\ UNCHANGED err
    /\ UNCHANGED <<paths_to_add, all_pak_files, loopvars, arg, res>>

(* Lines 665-677: strip audio-only pakfiles *)
RECURSIVE StripAudio(_)
StripAudio(pfs) ==
    IF Len(pfs) = 0 THEN <<>>
    ELSE IF SKIP_AUDIO_PAKS /\ is_audio_only(Head(pfs))
         THEN StripAudio(Tail(pfs))
         ELSE <<Head(pfs)>> \o StripAudio(Tail(pfs))

AudioFilter ==
    /\ pc = "filter"
    /\ all_pak_files' = StripAudio(proposed_pak_files)
    /\ IF Len(all_pak_files') = 0
       THEN Raise("ValueError: No pakfiles found to process!")
       ELSE pc' = "preflight" /\ UNCHANGED err
    /\ UNCHANGED <<paths_to_add, proposed_pak_files, loopvars, arg, res>>

\* a start of the run that leaves the staging directory as it finds it
rmtree_skipped(dir) == dir

\* shutil.rmtree(tmp_extract, ignore_errors=True), line 819: the directory and
\* all it holds are removed; a directory that does not exist is no error
rmtree(dir) == [exists |-> FALSE, files |-> [r \in DOMAIN dir.files |-> NoFile]]

(* Lines 691-821: the final directory, the disk-space and path-length checks,
   the crypto file, and shutil.rmtree of the staging directory.  The user may
   decline at a warning, which is sys.exit(1); SystemExit is not an Exception. *)
Preflight ==
    /\ pc = "preflight"
    /\ \E proceed \in BOOLEAN :
         IF proceed
         THEN /\ pc' = "loop"
              /\ tmp_extract' = rmtree(tmp_extract)
              /\ order' = sorted(all_pak_files)
              /\ stage' = [i \in 1..Len(all_pak_files) |-> "Pending"]
         ELSE /\ pc' = "exited"
              /\ UNCHANGED <<tmp_extract, order, stage>>
    /\ UNCHANGED <<paths_to_add, err, proposed_pak_files, all_pak_files, cur,
                   started, mountpoint, filename_mapping, nread, files_unpacked,
                   abnormal, stderr_fits, final_extract, contrib, arg, res>>

----------------------------------------------------------------------------
(* Lines 823-837: the loop over sorted(all_pak_files) *)

SetStage(i, st) == stage' = [stage EXCEPT ![i] = st]

\* a loop that starts its next pakfile without waiting for the previous one
BodyNotAwaited == TRUE

\* the for loop (line 824) takes its next element once the body has run to its
\* end for the previous one (line 836)
BodyCompleted == IF cur = 0 THEN TRUE ELSE stage[cur] = "Done"

(* launch_unrealpak (lines 369-396): the executable is not found, which raises
   RuntimeError, or the subprocess starts with its stdout and its stderr piped.
   The program reads the stdout pipe only: a subprocess that writes more to
   stderr than the pipe holds blocks in that write, and prints and closes
   nothing after it. *)
launch_unrealpak ==
    \E found \in BOOLEAN :
        IF found
        THEN (\E fits \in BOOLEAN : stderr_fits' = fits) /\ UNCHANGED <<pc, err>>
        ELSE Raise("RuntimeError: Could not find UnrealPak") /\ stderr_fits' = TRUE

(* Lines 824-829 and 256-261: the loop takes its next pakfile and
   get_filename_mapping launches "UnrealPak -list". *)
StartArchive ==
    /\ pc = "loop"
    /\ cur < Len(order)
    /\ BodyCompleted
    /\ cur' = cur + 1
    /\ SetStage(cur + 1, "Listing")
    /\ started' = Append(started, order[cur + 1])
    /\ mountpoint' = Unbound
    /\ filename_mapping' = <<>>
    /\ nread' = 0
    /\ abnormal' = FALSE
    /\ launch_unrealpak
    /\ UNCHANGED <<paths_to_add, proposed_pak_files, all_pak_files, order,
                   files_unpacked, tmp_extract, final_extract, contrib, arg, res>>

\* a listing that takes an unassigned mount point for the empty one
list_line_lenient(mp, mapping, line) ==
    LET mm == re_unpack_mount(line)
        fm == re_unpack_file(line)
    IN  IF mm.matched
        THEN [raised |-> FALSE, mapping |-> mapping,
              mountpoint |-> [bound |-> TRUE, val |-> StripMount(mm.mountpoint)]]
        ELSE IF fm.matched
        THEN [raised |-> FALSE, mountpoint |-> mp,
              mapping |-> DictSet(mapping, fm.filename,
                                  Normalize(mp.val \o fm.filename))]
        ELSE [raised |-> FALSE, mountpoint |-> mp, mapping |-> mapping]

\* a listing that keeps the first in-game location it found for a raw name
list_line_first(mp, mapping, line) ==
    LET mm == re_unpack_mount(line)
        fm == re_unpack_file(line)
    IN  IF mm.matched
        THEN [raised |-> FALSE, mapping |-> mapping,
              mountpoint |-> [bound |-> TRUE, val |-> StripMount(mm.mountpoint)]]
        ELSE IF fm.matched
        THEN IF ~mp.bound
             THEN [raised |-> TRUE, mountpoint |-> mp, mapping |-> mapping]
             ELSE [raised |-> FALSE, mountpoint |-> mp,
                   mapping |-> IF fm.filename \in DictKeys(mapping) THEN mapping
                               ELSE DictSet(mapping, fm.filename,
                                            Normalize(mp.val \o fm.filename))]
        ELSE [raised |-> FALSE, mountpoint |-> mp, mapping |-> mapping]

(* Lines 263-295, the body of get_filename_mapping's loop for one line, from
   the mount point mp and the dict so far: [raised, mountpoint, mapping].
   mountpoint is declared (line 261) but not assigned before the loop: reading
   it on a file line that comes before any mount line raises
   UnboundLocalError. *)
list_line(mp, mapping, line) ==
    LET mm == re_unpack_mount(line)
        fm == re_unpack_file(line)
    IN  IF mm.matched
        THEN [raised |-> FALSE, mapping |-> mapping,
              mountpoint |-> [bound |-> TRUE, val |-> StripMount(mm.mountpoint)]]
        ELSE IF fm.matched
        THEN IF ~mp.bound
             THEN [raised |-> TRUE, mountpoint |-> mp, mapping |-> mapping]
             ELSE [raised |-> FALSE, mountpoint |-> mp,
                   mapping |-> DictSet(mapping, fm.filename,
                                       Normalize(mp.val \o fm.filename))]
        ELSE [raised |-> FALSE, mountpoint |-> mp, mapping |-> mapping]

(* Lines 260-297, get_filename_mapping on the lines its subprocess prints:
   [raised, mapping], the dict returned unless an exception was raised. *)
RECURSIVE list_lines(_, _, _)
list_lines(lines, mp, mapping) ==
    IF Len(lines) = 0 THEN [raised |-> FALSE, mapping |-> mapping]
    ELSE LET r == list_line(mp, mapping, Head(lines))
         IN  IF r.raised THEN [raised |-> TRUE, mapping |-> <<>>]
             ELSE list_lines(Tail(lines), r.mountpoint, r.mapping)

get_filename_mapping(lines) == list_lines(lines, Unbound, <<>>)

(* Lines 262-295: one line of the listing is read and handled. *)
ListLine ==
    /\ pc = "loop"
    /\ cur > 0 /\ stage[cur] = "Listing"
    /\ nread < MaxListLines
    /\ nread' = nread + 1
    /\ \E line \in ListLines :
         LET r == list_line(mountpoint, filename_mapping, line)
         IN  /\ mountpoint' = r.mountpoint
             /\ filename_mapping' = r.mapping
             /\ IF r.raised THEN Raise("UnboundLocalError: mountpoint")
                ELSE UNCHANGED <<pc, err>>
    /\ UNCHANGED <<paths_to_add, proposed_pak_files, all_pak_files, order, cur,
                   stage, started, files_unpacked, abnormal, stderr_fits,
                   tmp_extract, final_extract, contrib, arg, res>>

(* Lines 262, 297, 830 and 313-330: the listing's stdout closes (the process
   ended, normally or not: its return code is never read; it cannot end while
   it is blocked in a write to its stderr), the mapping is
   returned (its local mountpoint is gone), and extract creates the staging
   directory and launches "UnrealPak -extract". *)
ListEOF ==
    /\ pc = "loop"
    /\ cur > 0 /\ stage[cur] = "Listing"
    /\ stderr_fits
    /\ \E rc \in {0, 1} : abnormal' = (abnormal \/ rc # 0)
    /\ tmp_extract' = [tmp_extract EXCEPT !.exists = TRUE]
    /\ SetStage(cur, "Extracting")
    /\ mountpoint' = Unbound
    /\ files_unpacked' = 0
    /\ nread' = 0
    /\ launch_unrealpak
    /\ UNCHANGED <<paths_to_add, proposed_pak_files, all_pak_files, order, cur,
                   started, filename_mapping, final_extract, contrib, arg, res>>

\* what UnrealPak writes to the staging directory while it prints one line:
\* nothing, or one file of the archive being extracted
Written(files, w) ==
    IF w = NoFile THEN files
    ELSE [files EXCEPT ![w] = order[cur].filename]

(* Lines 333-351, the body of extract's loop for one line, from the counter so
   far: [raised, files_unpacked].  An empty expected_filenames is false in the
   test of line 335, as None is. *)
extract_line(expected_filenames, unpacked, line) ==
    LET m == re_extract(line)
    IN  IF m.matched
        THEN IF expected_filenames # {} /\ m.filename \notin expected_filenames
             THEN [raised |-> TRUE, files_unpacked |-> unpacked]
             ELSE [raised |-> FALSE, files_unpacked |-> unpacked + 1]
        ELSE [raised |-> FALSE, files_unpacked |-> unpacked]

(* Lines 328 and 353-358, after the stream has ended: TRUE when the count is
   found wrong.  total_files is None for an empty expected_filenames (line
   328), and the test of line 353 is false for None. *)
extract_end(expected_filenames, unpacked) ==
    LET total_files == Cardinality(expected_filenames)
    IN  total_files # 0 /\ unpacked # total_files

(* Lines 327-360, extract on the lines its subprocess prints: [raised, err,
   files_unpacked]. *)
RECURSIVE extract_lines(_, _, _)
extract_lines(expected_filenames, lines, unpacked) ==
    IF Len(lines) = 0
    THEN IF extract_end(expected_filenames, unpacked)
         THEN [raised |-> TRUE, err |-> "RuntimeError: Expected total_files files",
               files_unpacked |-> unpacked]
         ELSE [raised |-> FALSE, err |-> "", files_unpacked |-> unpacked]
    ELSE LET r == extract_line(expected_filenames, unpacked, Head(lines))
         IN  IF r.raised
             THEN [raised |-> TRUE,
                   err |-> "RuntimeError: Unexpected filename extracted",
                   files_unpacked |-> unpacked]
             ELSE extract_lines(expected_filenames, Tail(lines), r.files_unpacked)

extract(expected_filenames, lines) == extract_lines(expected_filenames, lines, 0)

(* Lines 332-351: one line of the extraction is read and handled. *)
ExtractLine ==
    /\ pc = "loop"
    /\ cur > 0 /\ stage[cur] = "Extracting"
    /\ nread < MaxExtractLines
    /\ nread' = nread + 1
    /\ \E w \in RawNames \cup {NoFile} :
         tmp_extract' = [tmp_extract EXCEPT !.files = Written(@, w)]
    /\ \E line \in ExtractLines :
         LET r == extract_line(DictKeys(filename_mapping), files_unpacked, line)
         IN  /\ files_unpacked' = r.files_unpacked
             /\ IF r.raised
                THEN Raise("RuntimeError: Unexpected filename extracted")
                ELSE UNCHANGED <<pc, err>>
    /\ UNCHANGED <<paths_to_add, proposed_pak_files, all_pak_files, order, cur,
                   stage, started, mountpoint, filename_mapping, abnormal,
                   stderr_fits, final_extract, contrib, arg, res>>

\* delete_extra_files (lines 399-418): the files of the folder that match
\* EXTRACTED_FILES_TO_DELETE are removed
delete_extra_files(files) ==
    [r \in DOMAIN files |-> IF PrunedFile(r) THEN NoFile ELSE files[r]]

(* Lines 353-360 and 831-833: the extraction's stdout closes, the count is
   compared with the expected one (when there is one: total_files is None for
   an empty expected set), and the extra files are pruned. *)
ExtractEOF ==
    /\ pc = "loop"
    /\ cur > 0 /\ stage[cur] = "Extracting"
    /\ stderr_fits
    /\ \E rc \in {0, 1} : abnormal' = (abnormal \/ rc # 0)
    /\ IF extract_end(DictKeys(filename_mapping), files_unpacked)
       THEN /\ Raise("RuntimeError: Expected total_files files")
            /\ UNCHANGED <<stage, tmp_extract>>
       ELSE /\ SetStage(cur, "Merging")
            /\ tmp_extract' =
                 [tmp_extract EXCEPT !.files = delete_extra_files(@)]
            /\ UNCHANGED <<pc, err>>
    /\ UNCHANGED <<paths_to_add, proposed_pak_files, all_pak_files, order, cur,
                   started, mountpoint, filename_mapping, nread, files_unpacked,
                   stderr_fits, final_extract, contrib, arg, res>>

(* normalize_pak_files, lines 477-489: the moves, in the dict's order.  The
   state is [tmp, final, moved]: the staged files, the final tree, and the
   <<raw, final path>> pairs moved so far. *)
\* a move that keeps a file the final tree already holds
MoveKeepingOld(st, temp_filename, final_filename) ==
    [tmp   |-> [st.tmp EXCEPT ![temp_filename] = NoFile],
     final |-> IF st.final[final_filename] # NoFile THEN st.final
               ELSE [st.final EXCEPT ![final_filename] = st.tmp[temp_filename]],
     moved |-> Append(st.moved, <<temp_filename, final_filename>>)]

\* lines 480-489: os.makedirs and shutil.move of one staged file, which
\* replaces the file the final path may hold
MoveOne(st, temp_filename, final_filename) ==
    [tmp   |-> [st.tmp EXCEPT ![temp_filename] = NoFile],
     final |-> [st.final EXCEPT ![final_filename] = st.tmp[temp_filename]],
     moved |-> Append(st.moved, <<temp_filename, final_filename>>)]

RECURSIVE MoveAll(_, _)
MoveAll(mapping, st) ==
    IF Len(mapping) = 0 THEN st
    ELSE LET temp_filename  == Head(mapping)[1]
             final_filename == Head(mapping)[2]
         IN  IF st.tmp[temp_filename] # NoFile
             THEN MoveAll(Tail(mapping),
                          MoveOne(st, temp_filename, final_filename))
             ELSE MoveAll(Tail(mapping), st)

\* a clean-up that reports the staging root deleted whatever it holds
always_deleted(files) == TRUE

\* delete_empty_dirs (lines 441-462) on the staging root: TRUE, and the root is
\* removed, exactly when no file is left anywhere under it
delete_empty_dirs(files) == \A r \in DOMAIN files : files[r] = NoFile

(* normalize_pak_files (lines 465-492) on the staging directory temp =
   [exists, files], the final tree and the mapping: [raised, err, tmp, final,
   moved].  os.listdir (line 447) raises FileNotFoundError when the staging
   root does not exist; the root is removed (line 459) when nothing is left. *)
normalize_pak_files(temp, final, mapping) ==
    LET st == MoveAll(mapping,
                      [tmp |-> temp.files, final |-> final, moved |-> <<>>])
    IN  IF ~temp.exists
        THEN [raised |-> TRUE, err |-> "FileNotFoundError: listdir",
              tmp |-> [temp EXCEPT !.files = st.tmp],
              final |-> st.final, moved |-> st.moved]
        ELSE IF delete_empty_dirs(st.tmp)
        THEN [raised |-> FALSE, err |-> "",
              tmp |-> [exists |-> FALSE, files |-> st.tmp],
              final |-> st.final, moved |-> st.moved]
        ELSE [raised |-> TRUE,
              err |-> "RuntimeError: Could not delete temporary folder",
              tmp |-> [temp EXCEPT !.files = st.tmp],
              final |-> st.final, moved |-> st.moved]

(* Lines 834-836: normalize_pak_files moves the staged files and removes the
   staging directory, or raises when a file is left in it. *)
Merge ==
    /\ pc = "loop"
    /\ cur > 0 /\ stage[cur] = "Merging"
    /\ LET r == normalize_pak_files(tmp_extract, final_extract, filename_mapping)
       IN  /\ final_extract' = r.final
           /\ tmp_extract' = r.tmp
           /\ contrib' = contrib \cup
                {<<order[cur], r.moved[i][2]>> : i \in 1..Len(r.moved)}
           /\ IF r.raised
              THEN Raise(r.err) /\ UNCHANGED stage
              ELSE SetStage(cur, "Done") /\ UNCHANGED <<pc, err>>
    /\ UNCHANGED <<paths_to_add, proposed_pak_files, all_pak_files, order, cur,
                   started, mountpoint, filename_mapping, nread, files_unpacked,
                   abnormal, stderr_fits, arg, res>>

\* the loop has no pakfile left: the try block ends
Finish ==
    /\ pc = "loop"
    /\ cur = Len(order) /\ stage[cur] = "Done"
    /\ pc' = "done"
    /\ UNCHANGED <<paths_to_add, err, proposed_pak_files, all_pak_files,
                   loopvars, arg, res>>

Next ==
    \/ BuildProposed
    \/ AudioFilter
    \/ Preflight
    \/ StartArchive
    \/ ListLine
    \/ ListEOF
    \/ ExtractLine
    \/ ExtractEOF
    \/ Merge
    \/ Finish

Spec == Init /\ [][Next]_vars

----------------------------------------------------------------------------
(* The ordering of descriptors, applied to filenames drawn from a bounded set *)

DigitChar(d) == CHOOSE t \in Digits : DigitVal(t) = d

\* the decimal digits of a natural number
RECURSIVE DigitsOf(_)
DigitsOf(n) ==
    IF n < 10 THEN <<DigitChar(n)>>
    ELSE DigitsOf(n \div 10) \o <<DigitChar(n % 10)>>

\* the canonical filename pakchunk<N>[optional]-WindowsNoEditor[_<P>_P].pak of
\* a datagroup, an optional flag and a patch number (-1: no patch suffix)
canonical(N, optional, P) ==
    <<"pakchunk">> \o DigitsOf(N)
      \o (IF optional THEN <<"optional">> ELSE <<>>)
      \o <<WNE>>
      \o (IF P >= 0 THEN <<"_">> \o DigitsOf(P) \o <<"_P">> ELSE <<>>)
      \o <<".pak">>

OrderNames ==
    {canonical(n, o, p) : n \in {2, 9, 10}, o \in BOOLEAN, p \in {-1, 0, 1}}
    \cup {dN9, <<"pakchunk", "0", "9", WNE, ".pak">>}

PureInit ==
    /\ pc = "pure"
    /\ res = <<>>
    /\ paths_to_add = <<>>
    /\ tmp_extract = [exists |-> FALSE, files |-> [r \in RawNames |-> NoFile]]
    /\ RunInit

InitOrder ==
    /\ arg \in OrderNames \X OrderNames \X OrderNames
    /\ PureInit

\* three PakFiles are built from the names and compared with <
Compare ==
    /\ pc = "pure"
    /\ pc' = "applied"
    /\ LET A == PakFile(arg[1])
           B == PakFile(arg[2])
           C == PakFile(arg[3])
       IN  res' = [aa |-> Lt(A, A), ab |-> Lt(A, B), ba |-> Lt(B, A),
                   bc |-> Lt(B, C), ac |-> Lt(A, C)]
    /\ UNCHANGED <<paths_to_add, err, proposed_pak_files, all_pak_files,
                   loopvars, arg>>

NextOrder == Compare

SpecOrder == InitOrder /\ [][NextOrder]_vars

----------------------------------------------------------------------------
(* The path normalizer, applied to raw paths drawn from a bounded set *)

\* the segments of the enumerated raw paths: two names the expressions look
\* for, a root name with an override, a word, a word of two tokens, a segment
\* that is no word, and the empty segment
NormSegments ==
    {<<"Plugins">>, <<"Content">>, <<"OakGame">>, <<"a">>, <<"a", "b">>,
     <<"-">>, <<>>}

RECURSIVE PathsOfSegments(_)
PathsOfSegments(n) ==
    IF n = 1 THEN NormSegments
    ELSE {p \o <<"/">> \o sg : p \in PathsOfSegments(n - 1), sg \in NormSegments}

NormFixtures ==
    {<<"OakGame", "/", "Content", "/", "Foo", "/", "Bar", ".", "uasset">>,
     <<"SomePlugin", "/", "Plugins", "/", "Weapons", "/", "Gun", ".", "uasset">>,
     <<"Wwise", "/", "Content", "/", "a">>,
     <<"Engine", "/", "Plugins", "/", "a", "/", "Wwise", "/", "Content", "/", "a">>,
     <<"OakGame", "/", "Content", "/", "Maps", "/", "Dungeons", "/", "Boss", "/",
       "Climb", "/", "D_Boss_Climb_P", ".", "umap">>,
     <<"Game", "/", "Maps", "/", "Dungeons", "/", "Boss", "/", "Climb", "/",
       "D_Boss_Climb_P", ".", "-">>}

NormInputs ==
    UNION {PathsOfSegments(n) : n \in 1..MaxSegments} \cup NormFixtures

InitNorm ==
    /\ arg \in NormInputs
    /\ PureInit

\* lines 278-293 applied to real_filename = arg
ApplyNormalize ==
    /\ pc = "pure"
    /\ pc' = "applied"
    /\ res' = Normalize(arg)
    /\ UNCHANGED <<paths_to_add, err, proposed_pak_files, all_pak_files,
                   loopvars, arg>>

NextNorm == ApplyNormalize

SpecNorm == InitNorm /\ [][NextNorm]_vars

----------------------------------------------------------------------------
(* Properties of the run (Spec) *)

\* the ordering key (datagroup + 0.5 if optional, patchNumber), compared
KeyLess(a, b) ==
    \/ a.paknum < b.paknum
    \/ a.paknum = b.paknum /\ a.patchnum < b.patchnum

KeysDistinct(pfs) ==
    \A i, j \in 1..Len(pfs) :
        i # j => (pfs[i].paknum # pfs[j].paknum \/ pfs[i].patchnum # pfs[j].patchnum)

(* C1: when the ordering keys of the archives to process are pairwise
   distinct, the archives are started in strictly ascending order of the key,
   and a finished run has started every one of them; pakchunk9 is started
   before pakchunk10 and before its own patch, whatever the order given. *)
C1_AscendingOrder ==
    /\ KeysDistinct(all_pak_files) =>
         /\ \A i, j \in 1..Len(started) :
                i < j => KeyLess(started[i], started[j])
         /\ pc = "done" =>
              /\ Len(started) = Len(all_pak_files)
              /\ \A i \in 1..Len(all_pak_files) :
                    \E j \in 1..Len(started) : started[j] = all_pak_files[i]
    /\ \A i, j \in 1..Len(started) :
          (started[i].filename = N9 /\ started[j].filename \in {N10, N9p1})
             => i < j

C1_Witness ==
    /\ pc = "done"
    /\ Len(paths_to_add) = 2
    /\ paths_to_add[1].name = N10
    /\ paths_to_add[2].name = N9
    /\ Len(started) = 2
    /\ started[1].filename = N9
    /\ started[2].filename = N10

Contributors(p) == {c \in contrib : c[2] = p}

(* C2: after a run that processed every archive, each final path that a merge
   moved a file to holds the content of a contributing archive whose key no
   other contributor's key exceeds. *)
C2_LastWriterWins ==
    pc = "done" =>
        \A p \in FinalPaths :
            Contributors(p) # {} =>
                \E c \in Contributors(p) :
                    /\ final_extract[p] = c[1].filename
                    /\ \A d \in Contributors(p) : ~KeyLess(c[1], d[1])

C2_Witness ==
    /\ pc = "done"
    /\ Len(paths_to_add) = 2
    /\ paths_to_add[1].name = N9p1
    /\ paths_to_add[2].name = N9
    /\ \E p \in FinalPaths :
          /\ \E c, d \in Contributors(p) :
                c[1].filename = N9 /\ d[1].filename = N9p1
          /\ final_extract[p] = N9p1

NextStage ==
    {<<"Pending", "Listing">>, <<"Listing", "Extracting">>,
     <<"Extracting", "Merging">>, <<"Merging", "Done">>}

StagesExclusive ==
    /\ Cardinality({i \in DOMAIN stage : stage[i] \notin {"Pending", "Done"}}) <= 1
    /\ \A i \in DOMAIN stage :
          (i > 1 /\ stage[i] # "Pending") => stage[i - 1] = "Done"

StagesStep ==
    \A i \in DOMAIN stage \cap DOMAIN stage' :
        stage'[i] # stage[i] => <<stage[i], stage'[i]>> \in NextStage

(* C3: an archive's stage only moves Pending, Listing, Extracting, Merging,
   Done, one step at a time; at most one archive is in a stage other than
   Pending or Done; an archive leaves Pending only when the archive before it
   in the order is Done. *)
C3_Stages == []StagesExclusive /\ [][StagesStep]_vars

C3_Witness ==
    /\ Len(order) = 2
    /\ stage[1] = "Done"
    /\ stage[2] = "Merging"

\* an exception was raised while an archive was being processed
ArchiveFailed == err # "" /\ cur > 0

FailedStops ==
    ArchiveFailed =>
        /\ pc = "aborted"
        /\ stage[cur] \in {"Listing", "Extracting", "Merging"}
        /\ \A j \in (cur + 1)..Len(order) : stage[j] = "Pending"

(* C4: once listing, extraction or merging of an archive has raised, the run
   is over: the archive is not Done, every later archive is still Pending,
   and no step of the run changes anything any more. *)
C4_FailureAborts == []FailedStops /\ [][ArchiveFailed => UNCHANGED vars]_vars

C4_Witness ==
    /\ pc = "aborted"
    /\ err = "RuntimeError: Could not delete temporary folder"
    /\ Len(order) = 2
    /\ cur = 1
    /\ stage[1] = "Merging"
    /\ stage[2] = "Pending"

(* C5: an archive one of whose subprocesses (listing or extraction) exited
   abnormally never reaches Done, and the run does not finish. *)
C5_ToolFailureTerminal ==
    (abnormal /\ cur > 0) => (stage[cur] # "Done" /\ pc # "done")

Malformed(name) == IsPak(name) /\ ~re_pak_match(name).matched

(* C6: when a candidate .pak filename does not match the grammar, the run
   raises before any archive is started: it never gets past the construction
   of the descriptors. *)
C6_MalformedAborts ==
    (\E i \in 1..Len(paths_to_add) : Malformed(paths_to_add[i].name)) =>
        /\ pc \in {"start", "aborted"}
        /\ started = <<>>
        /\ cur = 0
        /\ pc = "aborted" =>
             err \in {"RuntimeError: Unknown pak file", "ValueError: not a .pak file"}

C6_Witness ==
    /\ pc = "aborted"
    /\ err = "RuntimeError: Unknown pak file"
    /\ Len(paths_to_add) = 2
    /\ paths_to_add[1].name = N9
    /\ paths_to_add[2].name = NBad

\* the datagroup integer embedded in a valid filename
DatagroupOf(name) == IntOf(re_pak_match(name).datagroup)

InSeq(s, x) == \E i \in 1..Len(s) : s[i] = x

(* C8: an archive is audio-only exactly when the datagroup integer of its
   filename is in the audio set, whatever its optional flag and patch number,
   and the audio filter drops exactly those archives. *)
C8_AudioByDatagroup ==
    pc \in {"preflight", "loop", "done", "exited"} =>
        \A i \in 1..Len(proposed_pak_files) :
            LET pf == proposed_pak_files[i]
            IN  /\ is_audio_only(pf) <=> DatagroupOf(pf.filename) \in audio_nums
                /\ InSeq(all_pak_files, pf) <=> DatagroupOf(pf.filename) \notin audio_nums

----------------------------------------------------------------------------
(* Properties of the descriptor comparison (SpecOrder) *)

\* A and B are valid names with the same datagroup and patch number, A not
\* optional and B optional
OptionalPair(A, B) ==
    LET ma == re_pak_match(A)
        mb == re_pak_match(B)
    IN  /\ ma.matched /\ mb.matched
        /\ IntOf(ma.datagroup) = IntOf(mb.datagroup)
        /\ ma.haspatch = mb.haspatch
        /\ IntOf(ma.patchnum) = IntOf(mb.patchnum)
        /\ ~ma.optional /\ mb.optional

(* C7: < on descriptors is irreflexive and transitive, and of two archives of
   one datagroup that differ only by the optional flag the one that is not
   optional is < the optional one (and not the other way round). *)
C7_StrictOrder ==
    pc = "applied" =>
        /\ ~res.aa
        /\ (res.ab /\ res.bc) => res.ac
        /\ OptionalPair(arg[1], arg[2]) => (res.ab /\ ~res.ba)

C7_Witness ==
    /\ pc = "applied"
    /\ OptionalPair(arg[1], arg[2])
    /\ arg[3] = N10
    /\ res.ab /\ res.bc /\ res.ac

----------------------------------------------------------------------------
(* Properties of the path normalizer (SpecNorm) *)

WordRun(s, i, j) == i <= j /\ \A k \in i..j : IsWord(s[k])

\* <word>/Plugins/<rest>: the positions of the separator after a first segment
\* of word characters that "Plugins/" follows (there is at most one)
PluginWrappedAt(s) ==
    {k \in 2..(Len(s) - 2) :
        WordRun(s, 1, k - 1) /\ s[k] = "/" /\ s[k + 1] = "Plugins" /\ s[k + 2] = "/"}

\* <anything>/Plugins/<rest>: the positions of a segment "Plugins" that follows
\* a non-empty prefix and a separator, and that a separator follows
AnyPluginsAt(s) ==
    {k \in 3..(Len(s) - 1) : s[k - 1] = "/" /\ s[k] = "Plugins" /\ s[k + 1] = "/"}

\* [junk/]<rootName>/Content/<rest>: <<b, c>> with the root name at b..c-2, a
\* whole segment of word characters, and "Content" at c between separators
ContentSplits(s) ==
    {sp \in (1..Len(s)) \X (1..Len(s)) :
        /\ sp[2] + 1 <= Len(s)
        /\ WordRun(s, sp[1], sp[2] - 2)
        /\ (sp[1] = 1 \/ s[sp[1] - 1] = "/")
        /\ s[sp[2] - 1] = "/" /\ s[sp[2]] = "Content" /\ s[sp[2] + 1] = "/"}

EffectiveRootName(rootName) ==
    IF rootName = <<"OakGame">> THEN <<"Game">>
    ELSE IF rootName = <<"Wwise">> THEN <<"WwiseEditor">>
    ELSE rootName

\* the content-wrapped rewrite, at the last split; s itself when there is none
ContentRewritten(s) ==
    IF ContentSplits(s) = {} THEN s
    ELSE LET sp == CHOOSE x \in ContentSplits(s) :
                      \A y \in ContentSplits(s) : y[2] <= x[2]
         IN  EffectiveRootName(SubSeq(s, sp[1], sp[2] - 2))
               \o <<"/">> \o Suffix(s, sp[2] + 2)

CaseFixed(s) == ApplyFixes(hardcoded_path_fixes, s)

\* a path of non-empty segments
NoEmptySegment(s) ==
    /\ s # <<>> /\ s[1] # "/" /\ s[Len(s)] # "/"
    /\ \A i \in 1..(Len(s) - 1) : ~(s[i] = "/" /\ s[i + 1] = "/")

(* C9, as stated: a raw path <anything>/Plugins/<rest>, all of its segments
   non-empty, normalizes to <rest> with the case fixes applied, for one of
   the ways to read the path so. *)
C9_PluginYieldsRest ==
    (pc = "applied" /\ NoEmptySegment(arg) /\ AnyPluginsAt(arg) # {}) =>
        \E k \in AnyPluginsAt(arg) : res = CaseFixed(Suffix(arg, k + 2))

(* C9, amended: a raw path <word>/Plugins/<rest>, whose first segment is a
   non-empty run of word characters, loses that segment and "Plugins/", and
   the content-wrapped rewrite is then applied to <rest> as well: the result
   is <rest> when <rest> is not content-wrapped and
   <effectiveRootName>/<rest'> when it is, with the case fixes applied. *)
C9_PluginThenContent ==
    (pc = "applied" /\ PluginWrappedAt(arg) # {}) =>
        LET k == CHOOSE x \in PluginWrappedAt(arg) : TRUE
        IN  res = CaseFixed(ContentRewritten(Suffix(arg, k + 3)))

C9_Witness ==
    /\ pc = "applied"
    /\ arg = <<"Engine", "/", "Plugins", "/", "a", "/", "Wwise", "/", "Content", "/", "a">>
    /\ res = <<"WwiseEditor", "/", "a">>

(* C10: a raw path that is not plugin-wrapped and is content-wrapped,
   [junk/]<rootName>/Content/<rest>, normalizes to <effectiveRootName>/<rest>,
   and one that is neither is unchanged, with the case fixes applied. *)
C10_ContentRewrite ==
    (pc = "applied" /\ PluginWrappedAt(arg) = {}) =>
        res = CaseFixed(ContentRewritten(arg))

C10_Witness ==
    /\ pc = "applied"
    /\ arg = <<"OakGame", "/", "Content", "/", "Foo", "/", "Bar", ".", "uasset">>
    /\ res = <<"Game", "/", "Foo", "/", "Bar", ".", "uasset">>

----------------------------------------------------------------------------
(* The listing, applied to line streams drawn from a bounded set *)

\* longest stream of lines given to get_filename_mapping
MaxStream == 4

InitList ==
    /\ arg \in SeqsUpTo(ListLines, MaxStream)
    /\ PureInit

\* lines 260-297 applied to the lines arg of one "UnrealPak -list" run
ApplyList ==
    /\ pc = "pure"
    /\ pc' = "applied"
    /\ res' = get_filename_mapping(arg)
    /\ UNCHANGED <<paths_to_add, err, proposed_pak_files, all_pak_files,
                   loopvars, arg>>

NextList == ApplyList

SpecList == InitList /\ [][NextList]_vars

----------------------------------------------------------------------------
(* Properties of the listing (SpecList) *)

IsMountLine(line) == Len(line) >= 1 /\ line[1] = "Display: Mount point "

IsFileLine(line) ==
    /\ ~IsMountLine(line)
    /\ Len(line) >= 2 /\ line[1] = "Display: \"" /\ line[Len(line)] = "\" offset"

RawNameOf(line) == SubSeq(line, 2, Len(line) - 1)

\* the positions of the file lines that no mount line precedes
FileBeforeMount(lines) ==
    {i \in 1..Len(lines) :
        IsFileLine(lines[i]) /\ \A j \in 1..(i - 1) : ~IsMountLine(lines[j])}

(* C11: when the listing prints a file line before any mount line, the listing
   raises and returns no mapping; the mount point of a call is unset when the
   call begins, whatever an earlier call read. *)
C11_FileBeforeMountFails ==
    (pc = "applied" /\ FileBeforeMount(arg) # {}) =>
        (res.raised /\ res.mapping = <<>>)

C11_Witness ==
    /\ pc = "applied"
    /\ arg = <<OtherLine, FileLine(<<"a">>), MountLine(<<"/">>)>>
    /\ res.raised

\* the mount point of the most recent mount line before line i, as it is kept
MountStateAt(lines, i) ==
    LET j == SetMax({k \in 1..(i - 1) : IsMountLine(lines[k])})
        m == Suffix(lines[j], 2)
    IN  IF Len(m) >= 6 /\ SubSeq(m, 1, 6) = <<"..", "/", "..", "/", "..", "/">>
        THEN SubSeq(m, 7, Len(m))
        ELSE IF m = <<"/">> THEN <<>> ELSE m

FileLinesOf(lines) == {i \in 1..Len(lines) : IsFileLine(lines[i])}

IsListingLine(line) == IsMountLine(line) \/ IsFileLine(line)

(* C12: a listing that returns, returns a mapping with exactly one entry per
   distinct raw name of its file lines, whose value is Normalize(m + raw) for
   the mount point m in force at the last file line of that raw name; the
   lines of neither shape make no difference to the result. *)
C12_MappingOfStream ==
    (pc = "applied" /\ ~res.raised) =>
        /\ DictKeys(res.mapping) = {RawNameOf(arg[i]) : i \in FileLinesOf(arg)}
        /\ Len(res.mapping) = Cardinality(DictKeys(res.mapping))
        /\ \A k \in 1..Len(res.mapping) :
              LET raw == res.mapping[k][1]
                  i   == SetMax({h \in FileLinesOf(arg) : RawNameOf(arg[h]) = raw})
              IN  res.mapping[k][2] = Normalize(MountStateAt(arg, i) \o raw)
        /\ res = get_filename_mapping(SelectSeq(arg, IsListingLine))

C12_Witness ==
    /\ pc = "applied"
    /\ arg = <<MountLine(<<"..", "/", "..", "/", "..", "/", "OakGame", "/", "Content", "/">>),
               FileLine(<<"a">>), MountLine(<<"/">>), FileLine(<<"a">>)>>
    /\ res.mapping = << <<(<<"a">>), (<<"a">>)>> >>

----------------------------------------------------------------------------
(* The extraction, applied to expected sets and line streams drawn from bounded
   sets *)

\* the expected set is the key set of a mapping (line 830), which may be empty
InitExtract ==
    /\ arg \in [expected : SUBSET RawNames,
                lines    : SeqsUpTo(ExtractLines, MaxStream)]
    /\ PureInit

\* lines 327-360 applied to the lines arg.lines of one "UnrealPak -extract" run
ApplyExtract ==
    /\ pc = "pure"
    /\ pc' = "applied"
    /\ res' = extract(arg.expected, arg.lines)
    /\ UNCHANGED <<paths_to_add, err, proposed_pak_files, all_pak_files,
                   loopvars, arg>>

NextExtract == ApplyExtract

SpecExtract == InitExtract /\ [][NextExtract]_vars

----------------------------------------------------------------------------
(* Properties of the extraction (SpecExtract) *)

IsConfirmation(line) ==
    /\ Len(line) >= 2
    /\ line[1] = "Display: Extracted \"" /\ line[Len(line)] = "\" to "

ConfirmedName(line) == SubSeq(line, 2, Len(line) - 1)

Confirmations(lines) == {i \in 1..Len(lines) : IsConfirmation(lines[i])}

(* C13: with an expected set supplied, empty or not, a confirmation line whose
   filename is not in the set makes the extraction fail. *)
C13_UnexpectedFails ==
    (/\ pc = "applied"
     /\ \E i \in Confirmations(arg.lines) :
            ConfirmedName(arg.lines[i]) \notin arg.expected)
        => res.raised

(* C14: with an expected set supplied, empty or not, the extraction succeeds
   only if the number of confirmation lines equals the size of the set. *)
C14_CountMustMatch ==
    (pc = "applied" /\ ~res.raised) =>
        Cardinality(Confirmations(arg.lines)) = Cardinality(arg.expected)

(* C19: an extraction that succeeds with a non-empty expected set has had
   every expected filename confirmed: the set of confirmed filenames is the
   expected set. *)
C19_ConfirmedIsExpected ==
    (pc = "applied" /\ ~res.raised /\ arg.expected # {}) =>
        {ConfirmedName(arg.lines[i]) : i \in Confirmations(arg.lines)} = arg.expected

----------------------------------------------------------------------------
(* The merge, applied to staging directories, final trees and mappings drawn
   from bounded sets, twice in a row *)

\* the mappings that the listings of SpecList return
MergeMappings ==
    {get_filename_mapping(l).mapping :
        l \in {x \in SeqsUpTo(ListLines, MaxStream) : ~get_filename_mapping(x).raised}}

\* the staging directory: absent, or holding a file for some of the raw names
\* (the content of a staged file is its raw name)
MergeStagings ==
    {[exists |-> FALSE, files |-> [r \in RawNames |-> NoFile]]}
    \cup {[exists |-> TRUE,
           files  |-> [r \in RawNames |-> IF r \in S THEN r ELSE NoFile]] :
            S \in SUBSET RawNames}

\* the final tree: empty, or holding an older file at one of its paths
MergeFinals ==
    {[p \in FinalPaths |-> NoFile]}
    \cup {[p \in FinalPaths |-> IF p = q THEN <<"old">> ELSE NoFile] : q \in FinalPaths}

InitMerge ==
    /\ arg \in [temp : MergeStagings, final : MergeFinals, mapping : MergeMappings]
    /\ PureInit

\* normalize_pak_files called on arg, and called again with the same arguments
\* on what the first call left
ApplyMerge ==
    /\ pc = "pure"
    /\ pc' = "applied"
    /\ LET first  == normalize_pak_files(arg.temp, arg.final, arg.mapping)
           second == normalize_pak_files(first.tmp, first.final, arg.mapping)
       IN  res' = [first |-> first, second |-> second]
    /\ UNCHANGED <<paths_to_add, err, proposed_pak_files, all_pak_files,
                   loopvars, arg>>

NextMerge == ApplyMerge

SpecMerge == InitMerge /\ [][NextMerge]_vars

----------------------------------------------------------------------------
(* Properties of the merge (SpecMerge) *)

StagedRaw(temp) == {r \in RawNames : temp.files[r] # NoFile}

TargetOf(mapping, raw) ==
    (CHOOSE i \in 1..Len(mapping) : mapping[i][1] = raw)

\* the staged files that have a mapping entry with final path p
MovedTo(a, p) ==
    {r \in StagedRaw(a.temp) \cap DictKeys(a.mapping) :
        a.mapping[TargetOf(a.mapping, r)][2] = p}

(* C15: the merge returns normally only with no file left in staging, and then
   the staging root is gone; every staged file with a mapping entry has left
   staging and its final path holds a file moved there; a final path no such
   file maps to is untouched; a staged file without a mapping entry stays and
   makes the merge raise; with none of those the merge returns normally. *)
C15_MergeDrainsOrFails ==
    pc = "applied" =>
        LET r      == res.first
            staged == StagedRaw(arg.temp)
            keys   == DictKeys(arg.mapping)
        IN  /\ ~r.raised => (StagedRaw(r.tmp) = {} /\ ~r.tmp.exists)
            /\ \A p \in FinalPaths :
                  IF MovedTo(arg, p) = {}
                  THEN r.final[p] = arg.final[p]
                  ELSE \E raw \in MovedTo(arg, p) : r.final[p] = arg.temp.files[raw]
            /\ StagedRaw(r.tmp) = staged \ keys
            /\ (staged \ keys # {}) =>
                  (r.raised /\ r.err = "RuntimeError: Could not delete temporary folder")
            /\ (arg.temp.exists /\ staged \subseteq keys) => ~r.raised

C15_Witness ==
    /\ pc = "applied"
    /\ StagedRaw(arg.temp) = {<<"a">>, <<"b", ".", "wem">>}
    /\ arg.mapping = << <<(<<"a">>), (<<"Game", "/", "a">>)>> >>
    /\ res.first.raised
    /\ res.first.final[<<"Game", "/", "a">>] = <<"a">>
    /\ StagedRaw(res.first.tmp) = {<<"b", ".", "wem">>}

(* C16: the merge of a staging directory that is empty returns normally and
   leaves the final tree alone, and a second merge with the same arguments,
   right after one that returned normally, returns normally too and changes
   neither the staging directory nor the final tree. *)
C16_MergeReentrant ==
    pc = "applied" =>
        /\ (arg.temp.exists /\ StagedRaw(arg.temp) = {}) =>
              (~res.first.raised /\ res.first.final = arg.final)
        /\ ~res.first.raised =>
              /\ ~res.second.raised
              /\ res.second.tmp = res.first.tmp
              /\ res.second.final = res.first.final

----------------------------------------------------------------------------
(* Properties of the staging directory in the run (Spec) *)

(* C17: while an archive is in Listing the staging directory holds no file,
   neither one that was there when the run began nor one that an earlier
   archive of the run staged; it holds none either once an archive is Done. *)
C17_StagingEmptyAtListing ==
    (cur > 0 /\ stage[cur] \in {"Listing", "Done"}) =>
        \A r \in RawNames : tmp_extract.files[r] = NoFile

C17_Witness ==
    /\ pc = "loop"
    /\ cur = 2
    /\ stage[2] = "Listing"
    /\ \E c \in contrib : c[1] = order[1]
    /\ \A r \in RawNames : tmp_extract.files[r] = NoFile

----------------------------------------------------------------------------
(* Parsing, applied to the canonical filenames of descriptors drawn from a
   bounded set *)

\* largest datagroup and largest patch number of a descriptor
MaxDatagroup == 12

MaxPatch == 11

\* P = -1 stands for a filename without a patch suffix
InitRound ==
    /\ arg \in [N : 0..MaxDatagroup, optional : BOOLEAN, P : (-1)..MaxPatch]
    /\ PureInit

\* PakFile(filename) for the canonical filename of the descriptor arg
ParseCanonical ==
    /\ pc = "pure"
    /\ pc' = "applied"
    /\ res' = PakFile(canonical(arg.N, arg.optional, arg.P))
    /\ UNCHANGED <<paths_to_add, err, proposed_pak_files, all_pak_files,
                   loopvars, arg>>

NextRound == ParseCanonical

SpecRound == InitRound /\ [][NextRound]_vars

(* C18: parsing the canonical filename of a descriptor (N, optional, P) does
   not raise and gives back N as the whole part of paknum, the optional flag as
   its half, and P as patchnum (-1 when there is no patch suffix). *)
C18_ParseInvertsFormat ==
    pc = "applied" =>
        /\ DOMAIN res = {"filename", "paknum", "patchnum"}
        /\ res.paknum \div 2 = arg.N
        /\ (res.paknum % 2 = 1) <=> arg.optional
        /\ res.patchnum = arg.P

C18_Witness ==
    /\ pc = "applied"
    /\ arg = [N |-> 12, optional |-> TRUE, P |-> 10]
    /\ res.filename = <<"pakchunk", "1", "2", "optional", WNE, "_", "1", "0", "_P", ".pak">>
    /\ res.paknum = 25
    /\ res.patchnum = 10

----------------------------------------------------------------------------
(* paksort.py: the standalone sort of archive filenames *)

\* pak_re (paksort.py, line 32): the pattern of PakFile.re_pak without its
\* directory prefix, so a name with a path separator does not match
paksort_pak_re(filename) ==
    IF \E i \in 1..Len(filename) : filename[i] \in {"/", "\\"}
    THEN [matched |-> FALSE]
    ELSE re_pak_match(filename)

\* a descriptor that numbers the patches from 0 like the unpacker, and gives 0
\* to an archive without patch
paksort_PakFile_unshifted(filename) ==
    LET m == paksort_pak_re(filename)
    IN  IF m.matched
        THEN [filename |-> filename,
              paknum   |-> 2 * IntOf(m.datagroup) + (IF m.optional THEN 1 ELSE 0),
              patchnum |-> IF m.haspatch THEN IntOf(m.patchnum) ELSE 0]
        ELSE [raised |-> "Exception: Unknown pak file"]

(* PakFile.__init__ of paksort.py (lines 36-48); paknum is kept doubled, as for
   the unpacker's PakFile.  Its __lt__ (lines 55-56) is the comparison Lt. *)
paksort_PakFile(filename) ==
    LET m == paksort_pak_re(filename)
    IN  IF m.matched
        THEN [filename |-> filename,
              paknum   |-> 2 * IntOf(m.datagroup) + (IF m.optional THEN 1 ELSE 0),
              patchnum |-> IF m.haspatch THEN IntOf(m.patchnum) + 1 ELSE 0]
        ELSE [raised |-> "Exception: Unknown pak file"]

\* the filenames of a sequence of descriptors
Filenames(pfs) == [i \in 1..Len(pfs) |-> pfs[i].filename]

(* paksort.py's __main__ (lines 62-67) on the lines names: the names in sorted
   order, or the exception of the first name that does not parse. *)
paksort_main(names) ==
    LET files == [i \in 1..Len(names) |-> paksort_PakFile(names[i])]
    IN  IF \E i \in 1..Len(names) : paksort_pak_re(names[i]).matched = FALSE
        THEN [raised |-> TRUE, out |-> <<>>]
        ELSE [raised |-> FALSE, out |-> Filenames(sorted(files))]

\* the order in which the unpacker's loop (line 824) takes the same names
unpack_order(names) ==
    IF \E i \in 1..Len(names) : PakFileRaises(names[i])
    THEN [raised |-> TRUE, out |-> <<>>]
    ELSE [raised |-> FALSE,
          out |-> Filenames(sorted([i \in 1..Len(names) |-> PakFile(names[i])]))]

InitSort ==
    /\ arg \in OrderNames \X OrderNames \X OrderNames
    /\ PureInit

\* both programs sort the three names of arg, and compare the first two
SortBoth ==
    /\ pc = "pure"
    /\ pc' = "applied"
    /\ LET p == paksort_main(arg)
           u == unpack_order(arg)
       IN  res' = [paksort |-> p,
                   unpack  |-> u,
                   lt_paksort |-> IF p.raised THEN FALSE
                                  ELSE Lt(paksort_PakFile(arg[1]), paksort_PakFile(arg[2])),
                   lt_unpack  |-> IF u.raised THEN FALSE
                                  ELSE Lt(PakFile(arg[1]), PakFile(arg[2]))]
    /\ UNCHANGED <<paths_to_add, err, proposed_pak_files, all_pak_files,
                   loopvars, arg>>

NextSort == SortBoth

SpecSort == InitSort /\ [][NextSort]_vars

\* a name of the grammar pakchunk<N>[optional]-WindowsNoEditor[_<P>_P].pak,
\* without a directory in front
BareName(name) ==
    /\ \A i \in 1..Len(name) : name[i] \notin {"/", "\\"}
    /\ re_pak_match(name).matched

(* C20: on filenames of the grammar, paksort.py and the unpacker both parse
   every name, A < B holds in one exactly when it holds in the other, and both
   sort a list of such names into the same sequence. *)
C20_SortsAgree ==
    (pc = "applied" /\ \A i \in 1..3 : BareName(arg[i])) =>
        /\ ~res.paksort.raised /\ ~res.unpack.raised
        /\ res.lt_paksort <=> res.lt_unpack
        /\ res.paksort.out = res.unpack.out

C20_Witness ==
    /\ pc = "applied"
    /\ arg = <<N9p1, canonical(9, FALSE, 0), N9>>
    /\ res.paksort.out = <<N9, canonical(9, FALSE, 0), N9p1>>
    /\ res.unpack.out = <<N9, canonical(9, FALSE, 0), N9p1>>
    /\ ~res.lt_paksort /\ ~res.lt_unpack

----------------------------------------------------------------------------
(* The run under fairness: the program is one sequential thread that takes its
   next step whenever it has one, the user answers every prompt, and a
   subprocess prints its next line or closes its stdout unless it is blocked.
   Every step of the run is a step of Next, and a stream has at most
   MaxListLines or MaxExtractLines lines, so weak fairness of Next says all of
   that. *)

\* the archives given to a run whose termination is examined
LiveItems == {[name |-> n, explicit |-> TRUE] : n \in {N9, N10}}

InitLive ==
    /\ paths_to_add \in SeqsUpTo(LiveItems, MaxPaks)
    /\ tmp_extract \in StagingAtStart
    /\ pc = "start"
    /\ RunInit
    /\ arg = <<>>
    /\ res = <<>>

SpecLive == InitLive /\ [][Next]_vars /\ WF_vars(Next)

\* the run is over: the loop ended, an exception reached line 839, or sys.exit
Terminal == pc \in {"done", "aborted", "exited"}

(* C21: with subprocesses that print finitely many lines and would then close
   their stdout, every run over a finite list of archives eventually reaches a
   terminal state: it never waits for ever in a read of a subprocess's
   output. *)
C21_Terminates == <>Terminal

----------------------------------------------------------------------------
(* Files lost within one merge (SpecMerge) *)

\* the final paths the files moved by the first merge were written to
PathsWritten(r) == {r.moved[i][2] : i \in 1..Len(r.moved)}

(* C22: when the merge returns normally, the files it moved from staging are at
   pairwise distinct final paths: no two raw names of the archive are moved to
   the same final path, and as many final paths are written as files moved. *)
C22_NoFileLost ==
    (pc = "applied" /\ ~res.first.raised) =>
        /\ \A i, j \in 1..Len(res.first.moved) :
              i # j => res.first.moved[i][2] # res.first.moved[j][2]
        /\ Cardinality(PathsWritten(res.first)) = Len(res.first.moved)

\* two raw names of one listing moved to the final path Game/a, of which the
\* tree keeps the second
C22_Collision ==
    /\ pc = "applied"
    /\ ~res.first.raised
    /\ res.first.moved =
          << <<(<<"a">>), (<<"Game", "/", "a">>)>>,
             <<(<<"OakGame", "/", "Content", "/", "a">>), (<<"Game", "/", "a">>)>> >>
    /\ res.first.final[<<"Game", "/", "a">>] = <<"OakGame", "/", "Content", "/", "a">>
    /\ \A p \in FinalPaths : res.first.final[p] # <<"a">>

====
